---- MODULE Spec2Model ----
(***************************************************************************)
(* Model of gravity.cpp: a particle system simulated on the GPU with       *)
(* transform feedback between two vertex buffers (ping-pong), rendered to  *)
(* an off-screen framebuffer and copied to the screen by a second pass.    *)
(*                                                                         *)
(* GLSL floats are modelled as fixed-point integers: the integer n stands  *)
(* for the real n / Scale.  Products and quotients are rescaled and        *)
(* truncated toward zero.  NaN is one reserved value that every arithmetic *)
(* operation propagates and every comparison treats as unordered.          *)
(***************************************************************************)
EXTENDS Integers, Sequences, FiniteSets, TLC

\* ------------------------------------------------------------------------
\* Bounds of the model
\* ------------------------------------------------------------------------
MaxFrames == 12   \* loop iterations explored
NumSeeds == 3     \* seeds of the random engine explored
MaxK == 3         \* shader inputs: positions on the grid -MaxK..MaxK halves
MaxV == 2         \* shader inputs: velocities on the grid -MaxV..MaxV halves

\* ------------------------------------------------------------------------
\* Program constants
\* ------------------------------------------------------------------------
numVertices == 50

\* ------------------------------------------------------------------------
\* float: fixed point with NaN
\* ------------------------------------------------------------------------
Scale == 1000
NaN == 1000000000

IsNaN(a) == a = NaN

\* integer division truncated toward zero, b > 0
TDiv(a, b) == IF a >= 0 THEN a \div b ELSE -((-a) \div b)

FAdd(a, b) == IF IsNaN(a) \/ IsNaN(b) THEN NaN ELSE a + b
FSub(a, b) == IF IsNaN(a) \/ IsNaN(b) THEN NaN ELSE a - b
FNeg(a) == IF IsNaN(a) THEN NaN ELSE -a
FMul(a, b) == IF IsNaN(a) \/ IsNaN(b) THEN NaN ELSE TDiv(a * b, Scale)
FDiv(a, b) ==
    IF IsNaN(a) \/ IsNaN(b) \/ b = 0 THEN NaN
    ELSE IF b > 0 THEN TDiv(a * Scale, b) ELSE -TDiv(a * Scale, -b)
\* comparisons: false when either side is NaN
FLt(a, b) == ~IsNaN(a) /\ ~IsNaN(b) /\ a < b
FGt(a, b) == ~IsNaN(a) /\ ~IsNaN(b) /\ a > b

RECURSIVE IsqrtIter(_, _, _)
IsqrtIter(n, lo, hi) ==
    IF hi - lo <= 1 THEN lo
    ELSE LET mid == (lo + hi) \div 2
         IN IF mid * mid <= n THEN IsqrtIter(n, mid, hi)
                              ELSE IsqrtIter(n, lo, mid)
\* floor of the square root, 0 <= n < 2^30
Isqrt(n) == IsqrtIter(n, 0, 32768)

\* ------------------------------------------------------------------------
\* GLSL built-ins on vec2 = <<x, y>>
\* ------------------------------------------------------------------------
VAdd(a, b) == <<FAdd(a[1], b[1]), FAdd(a[2], b[2])>>
VSub(a, b) == <<FSub(a[1], b[1]), FSub(a[2], b[2])>>
VScale(s, a) == <<FMul(s, a[1]), FMul(s, a[2])>>
VDivS(a, s) == <<FDiv(a[1], s), FDiv(a[2], s)>>
VHasNaN(a) == IsNaN(a[1]) \/ IsNaN(a[2])

dot(a, b) == FAdd(FMul(a[1], b[1]), FMul(a[2], b[2]))

\* length(v) = sqrt(x*x + y*y)
length(v) ==
    IF VHasNaN(v) THEN NaN ELSE Isqrt(v[1] * v[1] + v[2] * v[2])

\* min(x, y) = y < x ? y : x ; max(x, y) = x < y ? y : x
fmin(x, y) == IF FLt(y, x) THEN y ELSE x
fmax(x, y) == IF FLt(x, y) THEN y ELSE x
clamp(x, lo, hi) == fmin(fmax(x, lo), hi)

\* The results normalize() can give for the zero vector: the division
\* 0/0 it performs is undefined in GLSL; implementations return NaN
\* components or the zero vector.
NormalizeZero == {<<NaN, NaN>>, <<0, 0>>}

\* normalize(v) = v / length(v); nz is the implementation's result for
\* the zero vector
normalize(v, nz) ==
    IF VHasNaN(v) THEN <<NaN, NaN>>
    ELSE IF length(v) = 0 THEN nz
    ELSE VDivS(v, length(v))

\* reflect(I, N) = I - 2 * dot(N, I) * N
reflect(I, N) == VSub(I, VScale(FMul(2 * Scale, dot(N, I)), N))

\* ------------------------------------------------------------------------
\* The simulation vertex shader
\* ------------------------------------------------------------------------
reflectLoss == Scale \div 2
ClampLo == Scale \div 10
ClampHi == Scale

\* newVel as assigned before the wall checks
Accelerate(position, velocity, source, dt, nz) ==
    LET diff == VSub(source, position)
        r2 == clamp(FMul(length(diff), length(diff)), ClampLo, ClampHi)
    IN VAdd(velocity, VDivS(VScale(dt, normalize(diff, nz)), r2))

\* newPos
Advance(position, velocity, source, dt, nz) ==
    VAdd(position, VScale(dt, Accelerate(position, velocity, source, dt, nz)))

OutOfRange(c) == FLt(c, -Scale) \/ FGt(c, Scale)

\* mutant: the X wall check reflects about the horizontal wall's normal
WallX_WrongNormal(newPos, vel) ==
    IF OutOfRange(newPos[1])
    THEN VScale(reflectLoss, reflect(vel, <<0, Scale>>))
    ELSE vel

\* if (newPos.x < -1.0 || newPos.x > 1.0) newVel = reflectLoss*reflect(..)
WallX(newPos, vel) ==
    IF OutOfRange(newPos[1])
    THEN VScale(reflectLoss, reflect(vel, <<Scale, 0>>))
    ELSE vel

\* mutant: the Y wall check is an else-branch of the X wall check
WallY_ElseIf(newPos, vel) ==
    IF ~OutOfRange(newPos[1]) /\ OutOfRange(newPos[2])
    THEN VScale(reflectLoss, reflect(vel, <<0, Scale>>))
    ELSE vel

\* if (newPos.y < -1.0 || newPos.y > 1.0) newVel = reflectLoss*reflect(..)
WallY(newPos, vel) ==
    IF OutOfRange(newPos[2])
    THEN VScale(reflectLoss, reflect(vel, <<0, Scale>>))
    ELSE vel

\* mutant: the point is rasterised at the updated position
PointPosition_Updated(position, newPos) == newPos

\* gl_Position = vec4(position, 0.0, 1.0)
PointPosition(position, newPos) == position

VertexShader(position, velocity, source, dt, nz) ==
    LET vel0 == Accelerate(position, velocity, source, dt, nz)
        newPos == Advance(position, velocity, source, dt, nz)
    IN [newPos |-> newPos,
        newVel |-> WallY(newPos, WallX(newPos, vel0)),
        gl_Position |-> PointPosition(position, newPos)]

\* ------------------------------------------------------------------------
\* State
\* ------------------------------------------------------------------------
VARIABLES
    pc,              \* position of main(): "head", "simulate", "screen",
                     \* "swap", "present", "cleanup", "exit", "done";
                     \* "shader" while one shader invocation is studied
    currVB,          \* index of the vao/vbo read by the simulation
    currTFB,         \* index of the vbo bound for transform feedback
    vbo,             \* vbo[0], vbo[1]: the particle data of each buffer
    written,         \* written[b]: particles of vbo[b] holding defined data
    primitives,      \* result of the primitives-written query
    texColorBuffer,  \* points rasterised into the off-screen colour texture
    screen,          \* back buffer of the window
    shown,           \* front buffer of the window
    shouldClose,     \* the window's close flag
    frames,          \* completed loop iterations
    live,            \* GL and GLFW objects not yet released
    exitStatus,      \* return value of main, -1 while running
    inp,             \* inputs of the shader invocation under study, and
                     \* what this implementation's normalize gives for zero
    res,             \* its outputs
    applied          \* whether it has run

vars == <<pc, currVB, currTFB, vbo, written, primitives, texColorBuffer,
          screen, shown, shouldClose, frames, live, exitStatus,
          inp, res, applied>>

loopVars == <<currVB, currTFB, vbo, written, primitives, texColorBuffer,
              screen, shown, shouldClose, frames, live, exitStatus>>
shaderVars == <<inp, res, applied>>

\* ------------------------------------------------------------------------
\* Start-up
\* ------------------------------------------------------------------------
Resources == {"query", "shaderProgram", "vertexShader", "fragmentShader",
              "screenShaderProgram", "screenVertexShader",
              "screenFragmentShader", "framebuffer", "texColorBuffer",
              "vao", "vbo", "ebo", "glfw"}

\* std::default_random_engine: a Lehmer generator x' = a * x mod m, here
\* with a 16-bit modulus; its k-th output from the seed is seed * a^k mod m
EngineModulus == 65537
EngineMultiplier == 75

\* a * b mod m without leaving 32 bits
MulMod(a, b) ==
    ((((a * (b \div 256)) % EngineModulus) * 256) + a * (b % 256))
        % EngineModulus

RECURSIVE PowMod(_, _)
PowMod(a, k) ==
    IF k = 0 THEN 1
    ELSE LET h == PowMod(a, k \div 2)
             sq == MulMod(h, h)
         IN IF k % 2 = 0 THEN sq ELSE MulMod(sq, a)

Engine(seed, k) == MulMod(seed, PowMod(EngineMultiplier, k))

\* std::uniform_real_distribution<float> dist(-1.0f, 1.0f) applied to the
\* k-th output: a value in [-1, 1)
dist(seed, k) ==
    TDiv((Engine(seed, k) - 1) * 2 * Scale, EngineModulus - 1) - Scale

\* the initial vertices: random positions, zero velocity
Vertices(seed) ==
    [i \in 1..numVertices |->
        [pos |-> <<dist(seed, 2 * i - 1), dist(seed, 2 * i)>>,
         vel |-> <<0, 0>>]]

Seeds == 1..NumSeeds

\* contents a buffer store allocated with a null data pointer can hold
Uninitialized ==
    {[i \in 1..numVertices |-> p] :
        p \in {[pos |-> <<0, 0>>, vel |-> <<0, 0>>],
               [pos |-> <<NaN, NaN>>, vel |-> <<NaN, NaN>>]}}

NoInput == [position |-> <<0, 0>>, velocity |-> <<0, 0>>,
            source |-> <<0, 0>>, dt |-> 0, nz |-> <<0, 0>>]
NoResult == [newPos |-> <<0, 0>>, newVel |-> <<0, 0>>,
             gl_Position |-> <<0, 0>>]

Init ==
    /\ pc = "head"
    /\ currVB = 0
    /\ currTFB = 1
    /\ \E seed \in Seeds, junk \in Uninitialized :
          vbo = [b \in {0, 1} |-> IF b = 0 THEN Vertices(seed) ELSE junk]
    /\ written = [b \in {0, 1} |-> IF b = 0 THEN numVertices ELSE 0]
    /\ primitives = 0
    /\ texColorBuffer = <<>>
    /\ screen = <<>>
    /\ shown = <<>>
    /\ shouldClose = FALSE
    /\ frames = 0
    /\ live = Resources
    /\ exitStatus = -1
    /\ inp = NoInput
    /\ res = NoResult
    /\ applied = FALSE

\* ------------------------------------------------------------------------
\* The frame loop
\* ------------------------------------------------------------------------
\* the uniforms the loop sets
DT == Scale \div 10
Source == <<0, 0>>

\* mutant: the bound range is one particle short
FeedbackCapacity_Short == numVertices - 1

\* particles the bound transform feedback range can receive
FeedbackCapacity == numVertices

\* mutant: i | 1
Xor1_Or(i) == IF i % 2 = 0 THEN i + 1 ELSE i

\* i ^ 1
Xor1(i) == IF i % 2 = 0 THEN i + 1 ELSE i - 1

\* mutant: the loop condition ignores the close flag
EnterFrame_IgnoresClose ==
    /\ pc = "head"
    /\ frames < MaxFrames
    /\ pc' = "simulate"
    /\ UNCHANGED <<loopVars, shaderVars>>

\* while (!glfwWindowShouldClose(window)): the condition is true
EnterFrame ==
    /\ pc = "head"
    /\ ~shouldClose
    /\ frames < MaxFrames
    /\ pc' = "simulate"
    /\ UNCHANGED <<loopVars, shaderVars>>

\* while (!glfwWindowShouldClose(window)): the condition is false
ExitLoop ==
    /\ pc = "head"
    /\ shouldClose
    /\ pc' = "cleanup"
    /\ UNCHANGED <<loopVars, shaderVars>>

\* clear the framebuffer, set the uniforms, bind vao[currVB] and
\* vbo[currTFB], draw the points inside transform feedback and the query
Simulate ==
    /\ pc = "simulate"
    /\ \E nz \in NormalizeZero :
        LET outv == [i \in 1..numVertices |->
                        VertexShader(vbo[currVB][i].pos, vbo[currVB][i].vel,
                                     Source, DT, nz)]
            n == IF FeedbackCapacity < numVertices
                 THEN FeedbackCapacity ELSE numVertices
        IN /\ vbo' = [vbo EXCEPT ![currTFB] =
                        [i \in 1..numVertices |->
                            IF i <= n
                            THEN [pos |-> outv[i].newPos,
                                  vel |-> outv[i].newVel]
                            ELSE @[i]]]
           /\ written' = [written EXCEPT ![currTFB] =
                            IF @ < n THEN n ELSE @]
           /\ primitives' = n
           /\ texColorBuffer' = [i \in 1..numVertices |-> outv[i].gl_Position]
    /\ pc' = "screen"
    /\ UNCHANGED <<currVB, currTFB, screen, shown, shouldClose, frames,
                   live, exitStatus, shaderVars>>

\* draw the screen quad textured with texColorBuffer to the default
\* framebuffer
DrawScreen ==
    /\ pc = "screen"
    /\ screen' = texColorBuffer
    /\ pc' = "swap"
    /\ UNCHANGED <<currVB, currTFB, vbo, written, primitives, texColorBuffer,
                   shown, shouldClose, frames, live, exitStatus, shaderVars>>

\* mutant: the two assignments in the other order
SwapVertexBuffers_Reordered ==
    /\ pc = "swap"
    /\ currTFB' = Xor1(currTFB)
    /\ currVB' = Xor1(currTFB)
    /\ frames' = frames + 1
    /\ pc' = "present"
    /\ UNCHANGED <<vbo, written, primitives, texColorBuffer, screen, shown,
                   shouldClose, live, exitStatus, shaderVars>>

\* currVB = currTFB; currTFB = currTFB ^ 1;
SwapVertexBuffers ==
    /\ pc = "swap"
    /\ currVB' = currTFB
    /\ currTFB' = Xor1(currTFB)
    /\ frames' = frames + 1
    /\ pc' = "present"
    /\ UNCHANGED <<vbo, written, primitives, texColorBuffer, screen, shown,
                   shouldClose, live, exitStatus, shaderVars>>

\* glfwSwapBuffers; glfwPollEvents, which may deliver a close request
Present ==
    /\ pc = "present"
    /\ shown' = screen
    /\ \E close \in BOOLEAN : shouldClose' = (shouldClose \/ close)
    /\ pc' = "head"
    /\ UNCHANGED <<currVB, currTFB, vbo, written, primitives, texColorBuffer,
                   screen, frames, live, exitStatus, shaderVars>>

\* the glDelete* calls and glfwTerminate
Cleanup ==
    /\ pc = "cleanup"
    /\ live' = {}
    /\ pc' = "exit"
    /\ UNCHANGED <<currVB, currTFB, vbo, written, primitives, texColorBuffer,
                   screen, shown, shouldClose, frames, exitStatus,
                   shaderVars>>

\* return 0;
Return ==
    /\ pc = "exit"
    /\ exitStatus' = 0
    /\ pc' = "done"
    /\ UNCHANGED <<currVB, currTFB, vbo, written, primitives, texColorBuffer,
                   screen, shown, shouldClose, frames, live, shaderVars>>

Next ==
    \/ EnterFrame
    \/ ExitLoop
    \/ Simulate
    \/ DrawScreen
    \/ SwapVertexBuffers
    \/ Present
    \/ Cleanup
    \/ Return

Spec == Init /\ [][Next]_vars

\* main() is one thread that runs whenever it can: no statement of it is
\* left pending forever.  Simulate is enabled exactly when pc = "simulate"
\* and leaves that position, so weak fairness of Simulate is stated as the
\* program not staying at the draw call forever.
Fairness ==
    /\ WF_vars(EnterFrame)
    /\ WF_vars(ExitLoop)
    /\ []<>(pc # "simulate")
    /\ WF_vars(DrawScreen)
    /\ WF_vars(SwapVertexBuffers)
    /\ WF_vars(Present)
    /\ WF_vars(Cleanup)
    /\ WF_vars(Return)

FairSpec == Init /\ [][Next]_vars /\ Fairness

\* ------------------------------------------------------------------------
\* One invocation of the vertex shader on chosen inputs
\* ------------------------------------------------------------------------
Half == Scale \div 2
Coords == {k * Half : k \in -MaxK..MaxK}
VCoords == {k * Half : k \in -MaxV..MaxV}
Sources == {<<0, 0>>, <<Scale, 0>>, <<Half, Half>>}
Timesteps == {0, DT, Scale}

ShaderInit ==
    /\ pc = "shader"
    /\ currVB = 0
    /\ currTFB = 1
    /\ vbo = <<>>
    /\ written = <<>>
    /\ primitives = 0
    /\ texColorBuffer = <<>>
    /\ screen = <<>>
    /\ shown = <<>>
    /\ shouldClose = FALSE
    /\ frames = 0
    /\ live = Resources
    /\ exitStatus = -1
    /\ inp \in [position : Coords \X Coords, velocity : VCoords \X VCoords,
                source : Sources, dt : Timesteps, nz : NormalizeZero]
    /\ res = NoResult
    /\ applied = FALSE

Invoke ==
    /\ pc = "shader"
    /\ ~applied
    /\ res' = VertexShader(inp.position, inp.velocity, inp.source,
                            inp.dt, inp.nz)
    /\ applied' = TRUE
    /\ UNCHANGED <<pc, loopVars, inp>>

ShaderNext == Invoke

ShaderSpec == ShaderInit /\ [][ShaderNext]_vars

\* ------------------------------------------------------------------------
\* Properties of the frame loop
\* ------------------------------------------------------------------------
Particles == 1..numVertices

\* C1: the buffer read by the simulation and the buffer bound for
\* transform feedback are always two different buffers of the pair:
\* currVB and currTFB are both in {0, 1} and differ.
C1_OppositeBuffers ==
    /\ currVB \in {0, 1}
    /\ currTFB \in {0, 1}
    /\ currVB # currTFB

\* C1 witness: a simulation step has run reading buffer 1 and writing
\* buffer 0, the roles opposite to the initial ones.
C1_Witness ==
    /\ pc = "screen"
    /\ currVB = 1
    /\ currTFB = 0
    /\ frames = 1

\* C2: after N completed iterations the buffer that was current at step 0
\* (buffer 0) is the feedback target when N is odd and current when N is
\* even.
C2_PingPongParity ==
    pc = "head" =>
        /\ (frames % 2 = 1 => currTFB = 0 /\ currVB = 1)
        /\ (frames % 2 = 0 => currVB = 0 /\ currTFB = 1)

\* C2 witness: three iterations are complete and buffer 0 is the feedback
\* target.
C2_Witness ==
    /\ pc = "head"
    /\ frames = 3
    /\ currTFB = 0

\* C7: at the loop head another iteration starts exactly when the close
\* flag is clear and teardown starts exactly when it is set; after that no
\* simulation, swap or draw happens; teardown releases every resource and
\* main returns 0; and once the close flag is set the terminal state is
\* eventually reached.
C7_CloseEndsLoop ==
    /\ [][/\ (pc = "head" =>
                /\ (pc' = "simulate" => ~shouldClose)
                /\ (pc' = "cleanup" <=> shouldClose)
                /\ pc' \in {"simulate", "cleanup"})
          /\ (pc \in {"cleanup", "exit", "done"} =>
                /\ pc' \in {"exit", "done"}
                /\ UNCHANGED <<vbo, currVB, currTFB, texColorBuffer,
                               screen, shown, frames>>)]_vars
    /\ [](pc \in {"exit", "done"} => live = {})
    /\ [](pc = "done" => exitStatus = 0)
    /\ [](exitStatus \in {-1, 0})
    /\ (shouldClose ~> (pc = "done"))

\* C7 witness: the program has terminated after a close request that
\* arrived when several frames had been drawn.
C7_Witness ==
    /\ pc = "done"
    /\ shouldClose
    /\ frames = 2
    /\ exitStatus = 0
    /\ live = {}

C9_BackInsideNextFrame ==
    pc = "screen" =>
        \A i \in Particles : \A a \in {1, 2} :
            OutOfRange(vbo[currVB][i].pos[a]) =>
                ~OutOfRange(vbo[currTFB][i].pos[a])

\* C10: every simulation step reads a buffer in which all the particles
\* hold defined data.
C10_InputDefined ==
    pc = "simulate" => written[currVB] = numVertices

\* C10 witness: a simulation step is about to read buffer 1, which was
\* allocated without data and has since been filled by transform feedback.
C10_Witness ==
    /\ pc = "simulate"
    /\ currVB = 1
    /\ written[1] = numVertices
    /\ primitives = numVertices

\* ------------------------------------------------------------------------
\* Properties of one shader invocation
\* ------------------------------------------------------------------------
\* newVel before the wall checks, for the inputs under study
PreVel == Accelerate(inp.position, inp.velocity, inp.source, inp.dt, inp.nz)

XOnly == OutOfRange(res.newPos[1]) /\ ~OutOfRange(res.newPos[2])
YOnly == OutOfRange(res.newPos[2]) /\ ~OutOfRange(res.newPos[1])

\* C3 as stated: when newPos exceeds +1 on X only, the X component of the
\* output velocity is -0.5 times the pre-reflection one and the Y
\* component is the pre-reflection one unchanged; when newPos crosses a Y
\* boundary only, the X component is unchanged.
C3_OtherAxisUnchanged ==
    applied =>
        /\ (FGt(res.newPos[1], Scale) /\ XOnly =>
                /\ res.newVel[1] = FMul(reflectLoss, FNeg(PreVel[1]))
                /\ res.newVel[2] = PreVel[2])
        /\ (YOnly => res.newVel[1] = PreVel[1])

\* C3 amended: when newPos exceeds +1 on X only, the X component of the
\* output velocity is -0.5 times the pre-reflection one and the Y
\* component is 0.5 times the pre-reflection one; when newPos crosses a Y
\* boundary only, the Y component is -0.5 times and the X component 0.5
\* times the pre-reflection one.
C3_WholeVelocityHalved ==
    applied =>
        /\ (FGt(res.newPos[1], Scale) /\ XOnly =>
                /\ res.newVel[1] = FMul(reflectLoss, FNeg(PreVel[1]))
                /\ res.newVel[2] = FMul(reflectLoss, PreVel[2]))
        /\ (YOnly =>
                /\ res.newVel[1] = FMul(reflectLoss, PreVel[1])
                /\ res.newVel[2] = FMul(reflectLoss, FNeg(PreVel[2])))

\* C3 witness: newPos exceeded +1 on X only, with a velocity that had
\* nonzero X and Y components before the reflection, and the Y component
\* written differs from the one before the reflection.
C3_Witness ==
    /\ applied
    /\ FGt(res.newPos[1], Scale)
    /\ XOnly
    /\ PreVel[1] > 0
    /\ PreVel[2] # 0
    /\ res.newVel[1] < 0
    /\ res.newVel[2] # PreVel[2]

\* C4 as stated: with dt = 0 the outputs equal the inputs, for every
\* input position, velocity and source.
C4_ZeroTimestepIdentity ==
    applied /\ inp.dt = 0 =>
        /\ res.newPos = inp.position
        /\ res.newVel = inp.velocity

\* C5 as stated: for a particle at the gravity source the step divides by
\* nothing that is zero, so its outputs are defined values: no component
\* is NaN and they do not depend on what normalize gives for the zero
\* vector.
C5_NoDivisionByZero ==
    applied /\ inp.position = inp.source =>
        /\ ~VHasNaN(res.newVel)
        /\ ~VHasNaN(res.newPos)
        /\ \A nz \in NormalizeZero :
              VertexShader(inp.position, inp.velocity, inp.source,
                           inp.dt, nz) = res

\* C6: when newPos is out of range on both axes, the output velocity is
\* the Y reflection of the X reflection of the pre-reflection velocity:
\* both components negated and each scaled by 0.5 twice; the checks read
\* the newPos that is written out, which no reflection changes.
C6_BothReflections ==
    applied /\ OutOfRange(res.newPos[1]) /\ OutOfRange(res.newPos[2]) =>
        /\ res.newVel[1] =
              FMul(reflectLoss, FMul(reflectLoss, FNeg(PreVel[1])))
        /\ res.newVel[2] =
              FMul(reflectLoss, FNeg(FMul(reflectLoss, PreVel[2])))
        /\ res.newPos = VAdd(inp.position, VScale(inp.dt, PreVel))

\* C6 witness: newPos left the range on both axes with a velocity whose
\* components were both nonzero, and both came out negated.
C6_Witness ==
    /\ applied
    /\ FGt(res.newPos[1], Scale)
    /\ FGt(res.newPos[2], Scale)
    /\ PreVel[1] > 0
    /\ PreVel[2] > 0
    /\ res.newVel[1] < 0
    /\ res.newVel[2] < 0

====
